---- MODULE Spec2Model ----
(***************************************************************************)
(* Model of replication_handler.batch.parse_replication_stream:           *)
(* ParseReplicationStream, the batch that locks one source, opens the     *)
(* replication stream, dispatches every event to the data or the schema   *)
(* handler, and on SIGINT/SIGTERM flushes the publisher and saves a       *)
(* checkpoint.  Several agent processes are started against one source;   *)
(* a terminated process may be started again (a restart).                 *)
(***************************************************************************)
EXTENDS Integers, Sequences, FiniteSets, TLC

\* ---------------------------------------------------------------- bounds
\* Longest primary-key list of a SchemaInfo.
MaxKeys == 2
MaxLog == 2
MaxRuns == 3
MaxSignals == 2

\* Two agent processes are started against the one source.
Procs == {1, 2}

\* ------------------------------------------------------------- constants
None == "None"
DATA_EVENT == "DATA_EVENT"
SCHEMA_EVENT == "SCHEMA_EVENT"
DataEvent == "DataEvent"
QueryEvent == "QueryEvent"
OtherEvent == "OtherEvent"
EventClasses == {DataEvent, QueryEvent, OtherEvent}
data_event_handler == "data_event_handler"
schema_event_handler == "schema_event_handler"

\* HandlerInfo = namedtuple("HandlerInfo", ("event_type", "handler"))
HandlerInfo(event_type, handler) == [event_type |-> event_type, handler |-> handler]

\* The dict built by _build_handler_map: two keys, DataEvent and QueryEvent.
BuildHandlerMap ==
    (DataEvent :> HandlerInfo(DATA_EVENT, data_event_handler))
    @@ (QueryEvent :> HandlerInfo(SCHEMA_EVENT, schema_event_handler))

\* No handler map yet (before _build_handler_map has run).
NoMap == <<>>

\* No message builder has been constructed.
NoBuilder == <<>>

VARIABLES
    log,            \* the source's change log: event classes, position i = index i
    checkpoint,     \* the checkpoint store: <<>> or <<[position, is_clean_shutdown]>>
    prevPosition,   \* the position the store held before the last save (-1: none)
    busAccepted,    \* positions of the messages the bus has durably accepted
    lastAccepted,   \* publisher's latest durably accepted position (0: none)
    lock,           \* the processes holding the zookeeper lock of the source
    runs,           \* number of process starts so far
    pubPrev,        \* positions published by ended runs that exited through the signal handler
    pc,             \* per process: where it is in __init__ / run / the signal handler
    handler_map,    \* per process: self.handler_map
    streamOpen,     \* per process: self.stream exists
    sigRegistered,  \* per process: signal.signal(...) has been called
    idx,            \* per process: position of the last event the stream yielded
    startPos,       \* per process: position the stream was opened at
    current_event_type, \* per process: self.current_event_type
    pending,        \* per process: positions published, still in the publisher's buffer
    position_data,  \* per process: local of _handle_graceful_termination (-1: unset)
    exitStatus,     \* per process: exit status of the terminated process (-1: alive)
    exitCause,      \* per process: what ended the process
    calls,          \* per process: handle_event invocations of this run, in order
    returned,       \* per process: number of handle_event calls that returned
    published,      \* per process: positions handed to dp_client.publish in this run
    shutdownLog,    \* per process: flush / get / save calls of this run, in order
    saveArgs,       \* per process: arguments of the save_position calls of this run
    signals,        \* per process: termination signals delivered to the handler
    builder,        \* a ChangeLogMessageBuilder: schema_info, event, position, register_dry_run
    message,        \* what build_message returned: <<>> or <<the message>>
    build_state     \* "none", "new" (constructed), "built", "KeyError"

globals == <<log, checkpoint, prevPosition, busAccepted, lastAccepted, lock, runs, pubPrev>>
procState == <<pc, handler_map, streamOpen, sigRegistered, idx, startPos,
               current_event_type, pending, position_data, exitStatus, exitCause>>
history == <<calls, returned, published, shutdownLog, saveArgs, signals>>
builderVars == <<builder, message, build_state>>
vars == <<globals, procState, history, builderVars>>

\* ------------------------------------------------------- external services
\* ReplicationStreamRestarter: the position the stream is opened at is the last
\* persisted checkpoint's position, else the live end of the change log.
ResumePosition ==
    IF checkpoint = <<>> THEN Len(log) ELSE checkpoint[1].position

\* DPClientlib.get_checkpoint_position_data: the latest durably accepted position.
GetCheckpointPositionData == lastAccepted

\* save_position(position_data, is_clean_shutdown): the record the store keeps.
SavedCheckpoint(position, is_clean_shutdown) ==
    [position |-> position, is_clean_shutdown |-> is_clean_shutdown]

Max(S) == CHOOSE x \in S : \A y \in S : y <= x

\* DPClientlib.publish: the message of the event at `position` joins the buffer.
Publish(buffer, position) == buffer \cup {position}

\* DPClientlib.flush: the bus durably accepts every buffered message; the latest
\* accepted position is that of the last message published (they are published in
\* stream order), and is unchanged by an empty flush.
FlushAccepted(buffer) == busAccepted \cup buffer
FlushLastAccepted(buffer) == IF buffer = {} THEN lastAccepted ELSE Max(buffer)

\* ------------------------------------------------------------------ Init
ServiceInit ==
    /\ log = <<>>
    /\ checkpoint = <<>>
    /\ prevPosition = -1
    /\ busAccepted = {}
    /\ lastAccepted = 0
    /\ lock = {}
    /\ runs = 0
    /\ pubPrev = {}
    /\ pc = [p \in Procs |-> "idle"]
    /\ handler_map = [p \in Procs |-> NoMap]
    /\ streamOpen = [p \in Procs |-> FALSE]
    /\ sigRegistered = [p \in Procs |-> FALSE]
    /\ idx = [p \in Procs |-> 0]
    /\ startPos = [p \in Procs |-> 0]
    /\ current_event_type = [p \in Procs |-> None]
    /\ pending = [p \in Procs |-> {}]
    /\ position_data = [p \in Procs |-> -1]
    /\ exitStatus = [p \in Procs |-> -1]
    /\ exitCause = [p \in Procs |-> "none"]
    /\ calls = [p \in Procs |-> <<>>]
    /\ returned = [p \in Procs |-> 0]
    /\ published = [p \in Procs |-> {}]
    /\ shutdownLog = [p \in Procs |-> <<>>]
    /\ saveArgs = [p \in Procs |-> <<>>]
    /\ signals = [p \in Procs |-> 0]

\* The service starts with no message builder constructed.
Init ==
    /\ ServiceInit
    /\ builder = NoBuilder
    /\ message = <<>>
    /\ build_state = "none"

\* An exit path is taken (sys.exit() or an uncaught exception unwinding the main
\* thread): the exit status is decided, the process is about to end.
Exiting(p, status, cause) ==
    /\ pc' = [pc EXCEPT ![p] = "exiting"]
    /\ exitStatus' = [exitStatus EXCEPT ![p] = status]
    /\ exitCause' = [exitCause EXCEPT ![p] = cause]

\* --------------------------------------------------------- the change log
\* The upstream database appends one event to its change log.
SourceAppend(c) ==
    /\ Len(log) < MaxLog
    /\ log' = Append(log, c)
    /\ UNCHANGED <<checkpoint, prevPosition, busAccepted, lastAccepted, lock, runs, pubPrev>>
    /\ UNCHANGED <<procState, history>>
    /\ UNCHANGED builderVars

\* ------------------------------------------------------------- start-up
\* `ParseReplicationStream().start()` in a fresh process (first start or restart).
Start(p) ==
    /\ pc[p] \in {"idle", "terminated"}
    /\ runs < MaxRuns
    /\ runs' = runs + 1
    /\ pc' = [pc EXCEPT ![p] = "lock"]
    /\ exitStatus' = [exitStatus EXCEPT ![p] = -1]
    /\ UNCHANGED <<log, checkpoint, prevPosition, busAccepted, lastAccepted, lock, pubPrev>>
    /\ UNCHANGED <<handler_map, streamOpen, sigRegistered, idx, startPos,
                   current_event_type, pending, position_data, exitCause>>
    /\ UNCHANGED history
    /\ UNCHANGED builderVars

\* LockAcquire with a bug: every process locks a node of its own, so the
\* acquisition never waits for another holder.
LockAcquire_ownNode(p) ==
    /\ pc[p] = "lock"
    /\ lock' = lock \cup {p}
    /\ pc' = [pc EXCEPT ![p] = "build"]
    /\ UNCHANGED <<log, checkpoint, prevPosition, busAccepted, lastAccepted, runs, pubPrev>>
    /\ UNCHANGED <<handler_map, streamOpen, sigRegistered, idx, startPos,
                   current_event_type, pending, position_data, exitStatus, exitCause>>
    /\ UNCHANGED history
    /\ UNCHANGED builderVars

\* _lock_replication_handler, lock.acquire(timeout=10) returns: the lock is free.
LockAcquire(p) ==
    /\ pc[p] = "lock"
    /\ lock = {}
    /\ lock' = lock \cup {p}
    /\ pc' = [pc EXCEPT ![p] = "build"]
    /\ UNCHANGED <<log, checkpoint, prevPosition, busAccepted, lastAccepted, runs, pubPrev>>
    /\ UNCHANGED <<handler_map, streamOpen, sigRegistered, idx, startPos,
                   current_event_type, pending, position_data, exitStatus, exitCause>>
    /\ UNCHANGED history
    /\ UNCHANGED builderVars

\* LockTimeout with a bug: the except clause prints and does not exit, so
\* __init__ goes on without the lock.
LockTimeout_noExit(p) ==
    /\ pc[p] = "lock"
    /\ lock # {}
    /\ pc' = [pc EXCEPT ![p] = "build"]
    /\ exitCause' = [exitCause EXCEPT ![p] = "lock_timeout"]
    /\ UNCHANGED globals
    /\ UNCHANGED <<handler_map, streamOpen, sigRegistered, idx, startPos,
                   current_event_type, pending, position_data, exitStatus>>
    /\ UNCHANGED history
    /\ UNCHANGED builderVars

\* _lock_replication_handler, lock.acquire raises LockTimeout: the lock is held.
\* The except clause prints and calls sys.exit() with no argument (status 0).
LockTimeout(p) ==
    /\ pc[p] = "lock"
    /\ lock # {}
    /\ Exiting(p, 0, "lock_timeout")
    /\ UNCHANGED globals
    /\ UNCHANGED <<handler_map, streamOpen, sigRegistered, idx, startPos,
                   current_event_type, pending, position_data>>
    /\ UNCHANGED history
    /\ UNCHANGED builderVars

\* __init__ lines 45-50: Batch.__init__, the clients, the flags, the handler map.
BuildComponents(p) ==
    /\ pc[p] = "build"
    /\ handler_map' = [handler_map EXCEPT ![p] = BuildHandlerMap]
    /\ pc' = [pc EXCEPT ![p] = "open"]
    /\ UNCHANGED globals
    /\ UNCHANGED <<streamOpen, sigRegistered, idx, startPos,
                   current_event_type, pending, position_data, exitStatus, exitCause>>
    /\ UNCHANGED history
    /\ UNCHANGED builderVars

\* GetStream with a bug: the stream is opened at the beginning of the change log,
\* whatever the checkpoint store holds.
GetStream_fromStart(p) ==
    /\ pc[p] = "open"
    /\ streamOpen' = [streamOpen EXCEPT ![p] = TRUE]
    /\ startPos' = [startPos EXCEPT ![p] = 0]
    /\ idx' = [idx EXCEPT ![p] = 0]
    /\ pc' = [pc EXCEPT ![p] = "register"]
    /\ UNCHANGED globals
    /\ UNCHANGED <<handler_map, sigRegistered,
                   current_event_type, pending, position_data, exitStatus, exitCause>>
    /\ UNCHANGED history
    /\ UNCHANGED builderVars

\* _get_stream: restart the stream at the resume position.
GetStream(p) ==
    /\ pc[p] = "open"
    /\ streamOpen' = [streamOpen EXCEPT ![p] = TRUE]
    /\ startPos' = [startPos EXCEPT ![p] = ResumePosition]
    /\ idx' = [idx EXCEPT ![p] = ResumePosition]
    /\ pc' = [pc EXCEPT ![p] = "register"]
    /\ UNCHANGED globals
    /\ UNCHANGED <<handler_map, sigRegistered,
                   current_event_type, pending, position_data, exitStatus, exitCause>>
    /\ UNCHANGED history
    /\ UNCHANGED builderVars

\* _register_signal_handler: SIGINT and SIGTERM now call _handle_graceful_termination.
RegisterSignalHandler(p) ==
    /\ pc[p] = "register"
    /\ sigRegistered' = [sigRegistered EXCEPT ![p] = TRUE]
    /\ pc' = [pc EXCEPT ![p] = "loop"]
    /\ UNCHANGED globals
    /\ UNCHANGED <<handler_map, streamOpen, idx, startPos,
                   current_event_type, pending, position_data, exitStatus, exitCause>>
    /\ UNCHANGED history
    /\ UNCHANGED builderVars

\* ------------------------------------------------------------- run()
\* StreamNext with a bug: the iterator drops an event when two are waiting.
StreamNext_skips(p) ==
    /\ pc[p] = "loop"
    /\ idx[p] < Len(log)
    /\ idx' = [idx EXCEPT ![p] = IF idx[p] + 2 <= Len(log) THEN idx[p] + 2 ELSE idx[p] + 1]
    /\ pc' = [pc EXCEPT ![p] = "classify"]
    /\ UNCHANGED globals
    /\ UNCHANGED <<handler_map, streamOpen, sigRegistered, startPos,
                   current_event_type, pending, position_data, exitStatus, exitCause>>
    /\ UNCHANGED history
    /\ UNCHANGED builderVars

\* line 55: the stream yields its next event (it blocks while there is none).
StreamNext(p) ==
    /\ pc[p] = "loop"
    /\ idx[p] < Len(log)
    /\ idx' = [idx EXCEPT ![p] = idx[p] + 1]
    /\ pc' = [pc EXCEPT ![p] = "classify"]
    /\ UNCHANGED globals
    /\ UNCHANGED <<handler_map, streamOpen, sigRegistered, startPos,
                   current_event_type, pending, position_data, exitStatus, exitCause>>
    /\ UNCHANGED history
    /\ UNCHANGED builderVars

\* SetCurrentEventType with a bug: the handler is looked up but the category is
\* not written before the call.
SetCurrentEventType_stale(p) ==
    /\ pc[p] = "classify"
    /\ log[idx[p]] \in DOMAIN handler_map[p]
    /\ pc' = [pc EXCEPT ![p] = "invoke"]
    /\ UNCHANGED globals
    /\ UNCHANGED <<handler_map, streamOpen, sigRegistered, idx, startPos,
                   current_event_type, pending, position_data, exitStatus, exitCause>>
    /\ UNCHANGED history
    /\ UNCHANGED builderVars

\* lines 56-57: event_class is a key of handler_map; current_event_type is set.
SetCurrentEventType(p) ==
    /\ pc[p] = "classify"
    /\ log[idx[p]] \in DOMAIN handler_map[p]
    /\ current_event_type' =
          [current_event_type EXCEPT ![p] = handler_map[p][log[idx[p]]].event_type]
    /\ pc' = [pc EXCEPT ![p] = "invoke"]
    /\ UNCHANGED globals
    /\ UNCHANGED <<handler_map, streamOpen, sigRegistered, idx, startPos,
                   pending, position_data, exitStatus, exitCause>>
    /\ UNCHANGED history
    /\ UNCHANGED builderVars

\* UnknownEventClass with a bug: the lookup is guarded, an event class that has no
\* handler is skipped and the loop goes on with the next event.
UnknownEventClass_skips(p) ==
    /\ pc[p] = "classify"
    /\ log[idx[p]] \notin DOMAIN handler_map[p]
    /\ pc' = [pc EXCEPT ![p] = "loop"]
    /\ UNCHANGED globals
    /\ UNCHANGED <<handler_map, streamOpen, sigRegistered, idx, startPos,
                   current_event_type, pending, position_data, exitStatus, exitCause>>
    /\ UNCHANGED history
    /\ UNCHANGED builderVars

\* UnknownEventClass with a bug: the category is assigned from a default before
\* the handler lookup fails.
UnknownEventClass_setsType(p) ==
    /\ pc[p] = "classify"
    /\ log[idx[p]] \notin DOMAIN handler_map[p]
    /\ current_event_type' = [current_event_type EXCEPT ![p] = SCHEMA_EVENT]
    /\ Exiting(p, 1, "exception")
    /\ UNCHANGED globals
    /\ UNCHANGED <<handler_map, streamOpen, sigRegistered, idx, startPos,
                   pending, position_data>>
    /\ UNCHANGED history
    /\ UNCHANGED builderVars

\* line 57: handler_map[event_class] raises KeyError, before the assignment; the
\* exception leaves run() uncaught and the process ends with status 1.
UnknownEventClass(p) ==
    /\ pc[p] = "classify"
    /\ log[idx[p]] \notin DOMAIN handler_map[p]
    /\ Exiting(p, 1, "exception")
    /\ UNCHANGED globals
    /\ UNCHANGED <<handler_map, streamOpen, sigRegistered, idx, startPos,
                   current_event_type, pending, position_data>>
    /\ UNCHANGED history
    /\ UNCHANGED builderVars

\* lines 58-61: handle_event(event, position) is called on the mapped handler.
InvokeHandler(p) ==
    /\ pc[p] = "invoke"
    /\ calls' = [calls EXCEPT ![p] =
          Append(@, [handler |-> handler_map[p][log[idx[p]]].handler,
                     position |-> idx[p]])]
    /\ pc' = [pc EXCEPT ![p] =
          IF handler_map[p][log[idx[p]]].handler = data_event_handler
          THEN "in_data" ELSE "in_schema"]
    /\ UNCHANGED globals
    /\ UNCHANGED <<handler_map, streamOpen, sigRegistered, idx, startPos,
                   current_event_type, pending, position_data, exitStatus, exitCause>>
    /\ UNCHANGED <<returned, published, shutdownLog, saveArgs, signals>>
    /\ UNCHANGED builderVars

\* DataEventHandler.handle_event: build the message, hand it to the publisher.
DataHandleEvent(p) ==
    /\ pc[p] = "in_data"
    /\ pending' = [pending EXCEPT ![p] = Publish(@, idx[p])]
    /\ published' = [published EXCEPT ![p] = @ \cup {idx[p]}]
    /\ pc' = [pc EXCEPT ![p] = "returning"]
    /\ UNCHANGED globals
    /\ UNCHANGED <<handler_map, streamOpen, sigRegistered, idx, startPos,
                   current_event_type, position_data, exitStatus, exitCause>>
    /\ UNCHANGED <<calls, returned, shutdownLog, saveArgs, signals>>
    /\ UNCHANGED builderVars

\* SchemaEventHandler.handle_event: register the schema; no position is kept.
SchemaHandleEvent(p) ==
    /\ pc[p] = "in_schema"
    /\ pc' = [pc EXCEPT ![p] = "returning"]
    /\ UNCHANGED globals
    /\ UNCHANGED <<handler_map, streamOpen, sigRegistered, idx, startPos,
                   current_event_type, pending, position_data, exitStatus, exitCause>>
    /\ UNCHANGED history
    /\ UNCHANGED builderVars

\* HandlerRaises with a bug: the loop catches the exception of handle_event and
\* goes on with the next event.
HandlerRaises_swallowed(p) ==
    /\ pc[p] \in {"in_data", "in_schema"}
    /\ exitCause' = [exitCause EXCEPT ![p] = "exception"]
    /\ pc' = [pc EXCEPT ![p] = "loop"]
    /\ UNCHANGED globals
    /\ UNCHANGED <<handler_map, streamOpen, sigRegistered, idx, startPos,
                   current_event_type, pending, position_data, exitStatus>>
    /\ UNCHANGED history
    /\ UNCHANGED builderVars

\* handle_event raises (publish or registration failure): run() has no try, the
\* exception ends the process with status 1.
HandlerRaises(p) ==
    /\ pc[p] \in {"in_data", "in_schema"}
    /\ Exiting(p, 1, "exception")
    /\ UNCHANGED globals
    /\ UNCHANGED <<handler_map, streamOpen, sigRegistered, idx, startPos,
                   current_event_type, pending, position_data>>
    /\ UNCHANGED history
    /\ UNCHANGED builderVars

\* handle_event returns; the for loop goes to its next iteration.
HandlerReturns(p) ==
    /\ pc[p] = "returning"
    /\ returned' = [returned EXCEPT ![p] = @ + 1]
    /\ pc' = [pc EXCEPT ![p] = "loop"]
    /\ UNCHANGED globals
    /\ UNCHANGED <<handler_map, streamOpen, sigRegistered, idx, startPos,
                   current_event_type, pending, position_data, exitStatus, exitCause>>
    /\ UNCHANGED <<calls, published, shutdownLog, saveArgs, signals>>
    /\ UNCHANGED builderVars

\* ------------------------------------------------------------- signals
\* SIGINT/SIGTERM before _register_signal_handler has run: the default
\* disposition ends the process (KeyboardInterrupt / killed), nothing else runs.
DefaultSignal(p) ==
    /\ pc[p] \in {"lock", "build", "open", "register"}
    /\ ~sigRegistered[p]
    /\ Exiting(p, 1, "signal_default")
    /\ UNCHANGED globals
    /\ UNCHANGED <<handler_map, streamOpen, sigRegistered, idx, startPos,
                   current_event_type, pending, position_data>>
    /\ UNCHANGED history
    /\ UNCHANGED builderVars

\* HandleGracefulTermination with a bug: the flush is left out.
HandleGracefulTermination_noFlush(p) ==
    /\ sigRegistered[p]
    /\ pc[p] \notin {"idle", "exiting", "terminated"}
    /\ signals[p] < MaxSignals
    /\ signals' = [signals EXCEPT ![p] = @ + 1]
    /\ pc' = [pc EXCEPT ![p] =
          IF current_event_type[p] = DATA_EVENT THEN "h_get" ELSE "h_exit"]
    /\ UNCHANGED globals
    /\ UNCHANGED <<handler_map, streamOpen, sigRegistered, idx, startPos,
                   current_event_type, pending, position_data, exitStatus, exitCause>>
    /\ UNCHANGED <<calls, returned, published, shutdownLog, saveArgs>>
    /\ UNCHANGED builderVars

\* HandleGracefulTermination with a bug: the test of current_event_type is left
\* out, every shutdown flushes and saves.
HandleGracefulTermination_anyCategory(p) ==
    /\ sigRegistered[p]
    /\ pc[p] \notin {"idle", "exiting", "terminated"}
    /\ signals[p] < MaxSignals
    /\ signals' = [signals EXCEPT ![p] = @ + 1]
    /\ pc' = [pc EXCEPT ![p] = "h_flush"]
    /\ UNCHANGED globals
    /\ UNCHANGED <<handler_map, streamOpen, sigRegistered, idx, startPos,
                   current_event_type, pending, position_data, exitStatus, exitCause>>
    /\ UNCHANGED <<calls, returned, published, shutdownLog, saveArgs>>
    /\ UNCHANGED builderVars

\* SIGINT/SIGTERM delivered with the handler registered: the interpreter calls
\* HandleGracefulTermination with a bug: the flush and save are done only when
\* the signal cuts into a data handler call, not when the loop is between events.
HandleGracefulTermination_inFlightOnly(p) ==
    /\ sigRegistered[p]
    /\ pc[p] \notin {"idle", "exiting", "terminated"}
    /\ signals[p] < MaxSignals
    /\ signals' = [signals EXCEPT ![p] = @ + 1]
    /\ pc' = [pc EXCEPT ![p] =
          IF current_event_type[p] = DATA_EVENT /\ Len(calls[p]) > returned[p]
          THEN "h_flush" ELSE "h_exit"]
    /\ UNCHANGED globals
    /\ UNCHANGED <<handler_map, streamOpen, sigRegistered, idx, startPos,
                   current_event_type, pending, position_data, exitStatus, exitCause>>
    /\ UNCHANGED <<calls, returned, published, shutdownLog, saveArgs>>
    /\ UNCHANGED builderVars

\* _handle_graceful_termination on top of whatever the main thread is executing
\* (the loop, a handle_event call, or an earlier invocation of the signal handler).
\* Line 102 tests current_event_type.  The frame underneath is never resumed:
\* every path of the handler ends the process.
HandleGracefulTermination(p) ==
    /\ sigRegistered[p]
    /\ pc[p] \notin {"idle", "exiting", "terminated"}
    /\ signals[p] < MaxSignals
    /\ signals' = [signals EXCEPT ![p] = @ + 1]
    /\ pc' = [pc EXCEPT ![p] =
          IF current_event_type[p] = DATA_EVENT THEN "h_flush" ELSE "h_exit"]
    /\ UNCHANGED globals
    /\ UNCHANGED <<handler_map, streamOpen, sigRegistered, idx, startPos,
                   current_event_type, pending, position_data, exitStatus, exitCause>>
    /\ UNCHANGED <<calls, returned, published, shutdownLog, saveArgs>>
    /\ UNCHANGED builderVars

\* line 103, dp_client.flush(): the bus durably accepts the buffered messages.
Flush(p) ==
    /\ pc[p] = "h_flush"
    /\ busAccepted' = FlushAccepted(pending[p])
    /\ lastAccepted' = FlushLastAccepted(pending[p])
    /\ pending' = [pending EXCEPT ![p] = {}]
    /\ shutdownLog' = [shutdownLog EXCEPT ![p] = Append(@, "flush")]
    /\ pc' = [pc EXCEPT ![p] = "h_get"]
    /\ UNCHANGED <<log, checkpoint, prevPosition, lock, runs, pubPrev>>
    /\ UNCHANGED <<handler_map, streamOpen, sigRegistered, idx, startPos,
                   current_event_type, position_data, exitStatus, exitCause>>
    /\ UNCHANGED <<calls, returned, published, saveArgs, signals>>
    /\ UNCHANGED builderVars

\* line 104: position_data = dp_client.get_checkpoint_position_data()
GetPositionData(p) ==
    /\ pc[p] = "h_get"
    /\ position_data' = [position_data EXCEPT ![p] = GetCheckpointPositionData]
    /\ shutdownLog' = [shutdownLog EXCEPT ![p] = Append(@, "get_checkpoint_position_data")]
    /\ pc' = [pc EXCEPT ![p] = "h_save"]
    /\ UNCHANGED globals
    /\ UNCHANGED <<handler_map, streamOpen, sigRegistered, idx, startPos,
                   current_event_type, pending, exitStatus, exitCause>>
    /\ UNCHANGED <<calls, returned, published, saveArgs, signals>>
    /\ UNCHANGED builderVars

\* line 105: save_position(position_data, is_clean_shutdown=True) succeeds.
SavePosition(p) ==
    /\ pc[p] = "h_save"
    /\ prevPosition' = IF checkpoint = <<>> THEN -1 ELSE checkpoint[1].position
    /\ checkpoint' = <<SavedCheckpoint(position_data[p], TRUE)>>
    /\ shutdownLog' = [shutdownLog EXCEPT ![p] = Append(@, "save_position")]
    /\ saveArgs' = [saveArgs EXCEPT ![p] = Append(@, SavedCheckpoint(position_data[p], TRUE))]
    /\ pc' = [pc EXCEPT ![p] = "h_exit"]
    /\ UNCHANGED <<log, busAccepted, lastAccepted, lock, runs, pubPrev>>
    /\ UNCHANGED <<handler_map, streamOpen, sigRegistered, idx, startPos,
                   current_event_type, pending, position_data, exitStatus, exitCause>>
    /\ UNCHANGED <<calls, returned, published, signals>>
    /\ UNCHANGED builderVars

\* SavePositionRaises with a bug: the failed save is caught and tried again, the
\* signal handler stays at line 105.
SavePositionRaises_retries(p) ==
    /\ pc[p] = "h_save"
    /\ shutdownLog' = [shutdownLog EXCEPT ![p] = Append(@, "save_position")]
    /\ saveArgs' = [saveArgs EXCEPT ![p] = Append(@, SavedCheckpoint(position_data[p], TRUE))]
    /\ exitCause' = [exitCause EXCEPT ![p] = "exception"]
    /\ Len(shutdownLog[p]) < 4
    /\ UNCHANGED globals
    /\ UNCHANGED <<pc, handler_map, streamOpen, sigRegistered, idx, startPos,
                   current_event_type, pending, position_data, exitStatus>>
    /\ UNCHANGED <<calls, returned, published, signals>>
    /\ UNCHANGED builderVars

\* line 105: save_position raises; nothing catches it in the signal handler, the
\* exception ends the process with status 1 and the store keeps what it had.
SavePositionRaises(p) ==
    /\ pc[p] = "h_save"
    /\ shutdownLog' = [shutdownLog EXCEPT ![p] = Append(@, "save_position")]
    /\ saveArgs' = [saveArgs EXCEPT ![p] = Append(@, SavedCheckpoint(position_data[p], TRUE))]
    /\ Exiting(p, 1, "exception")
    /\ UNCHANGED globals
    /\ UNCHANGED <<handler_map, streamOpen, sigRegistered, idx, startPos,
                   current_event_type, pending, position_data>>
    /\ UNCHANGED <<calls, returned, published, signals>>
    /\ UNCHANGED builderVars

\* SysExit with a bug: sys.exit() is left out, the signal handler returns and the
\* interrupted handle_event call goes on to its return.
SysExit_returns(p) ==
    /\ pc[p] = "h_exit"
    /\ pc' = [pc EXCEPT ![p] = IF Len(calls[p]) > returned[p] THEN "returning" ELSE "loop"]
    /\ UNCHANGED globals
    /\ UNCHANGED <<handler_map, streamOpen, sigRegistered, idx, startPos,
                   current_event_type, pending, position_data, exitStatus, exitCause>>
    /\ UNCHANGED history
    /\ UNCHANGED builderVars

\* SysExit with a bug: sys.exit() sits inside the if block of line 102, so a
\* shutdown that saved nothing returns from the signal handler into run().
SysExit_onlyAfterSave(p) ==
    /\ pc[p] = "h_exit"
    /\ IF shutdownLog[p] # <<>>
       THEN Exiting(p, 0, "sys_exit")
       ELSE /\ pc' = [pc EXCEPT ![p] =
                  IF Len(calls[p]) > returned[p] THEN "returning" ELSE "loop"]
            /\ UNCHANGED <<exitStatus, exitCause>>
    /\ UNCHANGED globals
    /\ UNCHANGED <<handler_map, streamOpen, sigRegistered, idx, startPos,
                   current_event_type, pending, position_data>>
    /\ UNCHANGED history
    /\ UNCHANGED builderVars

\* lines 106-107: log.info, then sys.exit() with no argument (status 0).
SysExit(p) ==
    /\ pc[p] = "h_exit"
    /\ Exiting(p, 0, "sys_exit")
    /\ UNCHANGED globals
    /\ UNCHANGED <<handler_map, streamOpen, sigRegistered, idx, startPos,
                   current_event_type, pending, position_data>>
    /\ UNCHANGED history
    /\ UNCHANGED builderVars

\* The process is gone: its memory no longer exists, its exit status is what is
\* left of it, and its zookeeper session closes, which gives up the lock.
ProcessExit(p) ==
    /\ pc[p] = "exiting"
    /\ pc' = [pc EXCEPT ![p] = "terminated"]
    /\ lock' = lock \ {p}
    /\ handler_map' = [handler_map EXCEPT ![p] = NoMap]
    /\ streamOpen' = [streamOpen EXCEPT ![p] = FALSE]
    /\ sigRegistered' = [sigRegistered EXCEPT ![p] = FALSE]
    /\ idx' = [idx EXCEPT ![p] = 0]
    /\ startPos' = [startPos EXCEPT ![p] = 0]
    /\ current_event_type' = [current_event_type EXCEPT ![p] = None]
    /\ pending' = [pending EXCEPT ![p] = {}]
    /\ position_data' = [position_data EXCEPT ![p] = -1]
    /\ exitCause' = [exitCause EXCEPT ![p] = "none"]
    /\ calls' = [calls EXCEPT ![p] = <<>>]
    /\ returned' = [returned EXCEPT ![p] = 0]
    /\ published' = [published EXCEPT ![p] = {}]
    /\ shutdownLog' = [shutdownLog EXCEPT ![p] = <<>>]
    /\ saveArgs' = [saveArgs EXCEPT ![p] = <<>>]
    /\ signals' = [signals EXCEPT ![p] = 0]
    /\ exitStatus' = [exitStatus EXCEPT ![p] = -1]
    /\ pubPrev' = IF exitCause[p] = "sys_exit" THEN pubPrev \cup published[p] ELSE pubPrev
    /\ UNCHANGED <<log, checkpoint, prevPosition, busAccepted, lastAccepted, runs>>
    /\ UNCHANGED builderVars

\* ------------------------------------------------------------------ Next
Next ==
    \/ \E c \in EventClasses : SourceAppend(c)
    \/ \E p \in Procs : Start(p)
    \/ \E p \in Procs : LockAcquire(p)
    \/ \E p \in Procs : LockTimeout(p)
    \/ \E p \in Procs : BuildComponents(p)
    \/ \E p \in Procs : GetStream(p)
    \/ \E p \in Procs : RegisterSignalHandler(p)
    \/ \E p \in Procs : StreamNext(p)
    \/ \E p \in Procs : SetCurrentEventType(p)
    \/ \E p \in Procs : UnknownEventClass(p)
    \/ \E p \in Procs : InvokeHandler(p)
    \/ \E p \in Procs : DataHandleEvent(p)
    \/ \E p \in Procs : SchemaHandleEvent(p)
    \/ \E p \in Procs : HandlerRaises(p)
    \/ \E p \in Procs : HandlerReturns(p)
    \/ \E p \in Procs : DefaultSignal(p)
    \/ \E p \in Procs : HandleGracefulTermination(p)
    \/ \E p \in Procs : Flush(p)
    \/ \E p \in Procs : GetPositionData(p)
    \/ \E p \in Procs : SavePosition(p)
    \/ \E p \in Procs : SavePositionRaises(p)
    \/ \E p \in Procs : SysExit(p)
    \/ \E p \in Procs : ProcessExit(p)

Spec == Init /\ [][Next]_vars

\* One statement of the signal handler, or the exit of a process on its way out.
\* The interpreter goes on executing the handler it has entered and an exiting
\* process is torn down by the system: these steps are weakly fair.  The calls
\* on lines 103-105 are taken to return or raise.
HandlerStep(p) ==
    \/ Flush(p)
    \/ GetPositionData(p)
    \/ SavePosition(p)
    \/ SavePositionRaises(p)
    \/ SysExit(p)
    \/ ProcessExit(p)

FairSpec == Spec /\ \A p \in Procs : WF_vars(HandlerStep(p))

\* ============================================== ChangeLogMessageBuilder
\* replication_handler.util.change_log_message_builder: build_message is a
\* pure function of the builder's fields.  It is checked on its own, from every
\* builder of the bounded input sets.

CreateMessage == "CreateMessage"
UpdateMessage == "UpdateMessage"
DeleteMessage == "DeleteMessage"
MessageTypes == {CreateMessage, UpdateMessage, DeleteMessage}

\* Column names of the tables and the values a column holds.
Columns == {"id", "user_id"}
Values == {1, 2}

\* A row dictionary: column name -> value, over the columns of its table.
RowDicts(cols) == [cols -> Values]

\* event.row: an update carries the row before and after, the others the row.
Rows(message_type, cols) ==
    IF message_type = UpdateMessage
    THEN {[before_values |-> b, after_values |-> a] :
              b \in RowDicts(cols), a \in RowDicts(cols)}
    ELSE {[values |-> v] : v \in RowDicts(cols)}

\* The data events on a table with columns cols.
Events(cols) ==
    UNION {{[message_type |-> t, schema |-> "yelp", table |-> "business",
             row |-> r, timestamp |-> 1500000000] : r \in Rows(t, cols)} :
           t \in MessageTypes}

\* schema_info.primary_keys: an ordered list, without repetition, of columns of
\* the table, of length 0..MaxKeys.
PrimaryKeyLists(cols) ==
    {k \in UNION {[1..n -> cols] : n \in 0..MaxKeys} :
        \A i, j \in DOMAIN k : i # j => k[i] # k[j]}

SchemaInfos(cols) ==
    {[topic |-> "business_changelog", schema_id |-> 42, primary_keys |-> k] :
        k \in PrimaryKeyLists(cols)}

\* The position handed to the builder.
Position == [to_dict |-> [offset |-> 7], transaction_id |-> "txn"]

\* The builders __init__ can construct (lines 26-31), with the answer the pii
\* identifier gives for the table.
Builders ==
    UNION {{[schema_info |-> si, event |-> e, position |-> Position,
             register_dry_run |-> d, table_has_pii |-> pii] :
               si \in SchemaInfos(cols), e \in Events(cols),
               d \in BOOLEAN, pii \in BOOLEAN} :
           cols \in (SUBSET Columns) \ {{}}}

\* MessageBuilder._get_values: the current values of the row.
GetValues(row) ==
    IF "values" \in DOMAIN row THEN row.values ELSE row.after_values

\* lines 33-38.
create_payload(self, data) ==
    [table_schema |-> self.event.schema,
     table_name |-> self.event.table,
     id |-> data["id"]]

\* lines 41-46.
UpstreamPositionInfo(self) ==
    [position |-> self.position.to_dict,
     cluster_name |-> "cluster",
     database_name |-> self.event.schema,
     table_name |-> self.event.table]

\* lines 47-60.
MessageParams(self) ==
    [topic |-> self.schema_info.topic,
     schema_id |-> self.schema_info.schema_id,
     keys |-> self.schema_info.primary_keys,
     payload_data |-> create_payload(self, GetValues(self.event.row)),
     upstream_position_info |-> UpstreamPositionInfo(self),
     dry_run |-> self.register_dry_run,
     contains_pii |-> self.table_has_pii,
     timestamp |-> self.event.timestamp,
     meta |-> <<self.position.transaction_id>>]

\* build_message with a bug: the test of line 62 is left out, every message
\* gets a previous_payload_data, built from the only row there is.
build_message_alwaysPrevious(self) ==
    [message_type |-> self.event.message_type,
     params |-> MessageParams(self) @@
                ("previous_payload_data" :>
                    create_payload(self,
                        IF self.event.message_type = UpdateMessage
                        THEN self.event.row.before_values
                        ELSE GetValues(self.event.row)))]

\* lines 40-66: the message type of the event applied to the parameters; an
\* update also gets previous_payload_data (lines 62-64).
build_message(self) ==
    [message_type |-> self.event.message_type,
     params |->
        IF self.event.message_type = UpdateMessage
        THEN MessageParams(self) @@
             ("previous_payload_data" :>
                 create_payload(self, self.event.row.before_values))
        ELSE MessageParams(self)]

\* data['id'] of line 36 finds the column.
HasId(self) == "id" \in DOMAIN GetValues(self.event.row)

BuilderInit ==
    /\ ServiceInit
    /\ builder \in Builders
    /\ message = <<>>
    /\ build_state = "new"

\* build_message returns the message.
BuildMessage ==
    /\ build_state = "new"
    /\ HasId(builder)
    /\ message' = <<build_message(builder)>>
    /\ build_state' = "built"
    /\ UNCHANGED <<builder, globals, procState, history>>

\* line 36: the row has no column id, data['id'] raises KeyError.
BuildMessageRaises ==
    /\ build_state = "new"
    /\ ~HasId(builder)
    /\ build_state' = "KeyError"
    /\ UNCHANGED <<builder, message, globals, procState, history>>

BuilderNext ==
    \/ BuildMessage
    \/ BuildMessageRaises

BuilderSpec == BuilderInit /\ [][BuilderNext]_vars

\* =================================================================== claims
\* The positions of a process between lock acquisition and the end of its life.
HoldingPcs ==
    {"build", "open", "register", "loop", "classify", "invoke", "in_data",
     "in_schema", "returning", "h_flush", "h_get", "h_save", "h_exit"}

\* The positions of run(): the process is consuming and dispatching events.
DispatchPcs == {"loop", "classify", "invoke", "in_data", "in_schema", "returning"}

\* The handler an event of class c belongs to.
HandlerOfClass(c) ==
    IF c = DataEvent THEN data_event_handler ELSE schema_event_handler

\* C1: in a run, the handle_event invocations are exactly the events the stream
\* yielded, one invocation per event, each on the handler of the event's class,
\* in stream order: the i-th invocation is for the i-th event after the resume
\* position, and between iterations every yielded event has been dispatched.
C1_DispatchInStreamOrder ==
    \A p \in Procs :
        /\ Len(calls[p]) <= idx[p] - startPos[p]
        /\ \A i \in 1..Len(calls[p]) :
              /\ startPos[p] + i <= Len(log)
              /\ calls[p][i] = [handler |-> HandlerOfClass(log[startPos[p] + i]),
                                position |-> startPos[p] + i]
        /\ pc[p] \in {"loop", "in_data", "in_schema", "returning"}
              => Len(calls[p]) = idx[p] - startPos[p]
        /\ pc[p] = "loop" => returned[p] = Len(calls[p])

\* C1 witness: two events of different kinds were dispatched and both calls returned.
C1_Witness ==
    \E p \in Procs :
        /\ pc[p] = "loop"
        /\ Len(calls[p]) = 2
        /\ returned[p] = 2
        /\ calls[p][1].handler # calls[p][2].handler

\* C2: at most one process holds the lock and at most one is dispatching; a
\* process that got past the acquisition holds the lock for as long as it is
\* alive, and a holder is a process that acquired it at start-up.
C2_LockExclusive ==
    /\ Cardinality(lock) <= 1
    /\ Cardinality({p \in Procs : pc[p] \in DispatchPcs}) <= 1
    /\ \A p \in Procs : pc[p] \in HoldingPcs => p \in lock
    /\ \A p \in lock : pc[p] \in HoldingPcs \cup {"exiting"}

\* C2 witness: one process dispatches under the lock while the other one, started
\* against the same source, is refused it.
C2_Witness ==
    \E p, q \in Procs :
        /\ p # q
        /\ p \in lock
        /\ pc[p] \in {"in_data", "in_schema"}
        /\ pc[q] = "exiting"
        /\ exitCause[q] = "lock_timeout"

\* C3: a process whose lock acquisition timed out is exiting, and has opened no
\* stream, built no handler map, registered no signal handler, consumed and
\* dispatched no event, and flushed and saved nothing.
C3_TimeoutBeforeStartup ==
    \A p \in Procs :
        exitCause[p] = "lock_timeout" =>
            /\ pc[p] = "exiting"
            /\ ~streamOpen[p]
            /\ DOMAIN handler_map[p] = {}
            /\ ~sigRegistered[p]
            /\ idx[p] = 0
            /\ calls[p] = <<>>
            /\ published[p] = {}
            /\ shutdownLog[p] = <<>>
            /\ saveArgs[p] = <<>>

\* C3 witness: a process is exiting on a lock timeout while the holder has a
\* stream open.
C3_Witness ==
    \E p, q \in Procs :
        /\ exitCause[p] = "lock_timeout"
        /\ pc[p] = "exiting"
        /\ q \in lock
        /\ streamOpen[q]

\* C4: a process whose lock acquisition timed out exits with a non-zero status.
C4_TimeoutExitsNonZero ==
    \A p \in Procs :
        (pc[p] = "exiting" /\ exitCause[p] = "lock_timeout") => exitStatus[p] # 0

ShutdownPcs == {"h_flush", "h_get", "h_save", "h_exit"}

FullShutdown == <<"flush", "get_checkpoint_position_data", "save_position">>

\* C5: after a single termination signal delivered with current_event_type =
\* DATA_EVENT, the shutdown calls are flush, then get_checkpoint_position_data,
\* then save_position, once each and in that order; the save is of the position
\* the get returned, with is_clean_shutdown = TRUE; the process exits only after
\* the three calls.
C5_CleanShutdownSequence ==
    \A p \in Procs :
        (signals[p] = 1 /\ current_event_type[p] = DATA_EVENT) =>
            /\ pc[p] \in ShutdownPcs \cup {"exiting"}
            /\ pc[p] = "h_flush" => shutdownLog[p] = <<>>
            /\ pc[p] = "h_get" => shutdownLog[p] = SubSeq(FullShutdown, 1, 1)
            /\ pc[p] = "h_save" =>
                  /\ shutdownLog[p] = SubSeq(FullShutdown, 1, 2)
                  /\ saveArgs[p] = <<>>
                  /\ position_data[p] = lastAccepted
            /\ pc[p] \in {"h_exit", "exiting"} =>
                  /\ shutdownLog[p] = FullShutdown
                  /\ saveArgs[p] = <<SavedCheckpoint(position_data[p], TRUE)>>
                  /\ position_data[p] = lastAccepted
            /\ pc[p] = "h_exit" => checkpoint = saveArgs[p]

\* C5 witness: one signal arrived in the middle of a data event's handler call;
\* the three calls were made and the process is exiting through sys.exit().
C5_Witness ==
    \E p \in Procs :
        /\ signals[p] = 1
        /\ current_event_type[p] = DATA_EVENT
        /\ Len(calls[p]) > returned[p]
        /\ pc[p] = "exiting"
        /\ exitCause[p] = "sys_exit"
        /\ shutdownLog[p] = FullShutdown
        /\ checkpoint = <<SavedCheckpoint(1, TRUE)>>

\* C6: a process whose current_event_type is SCHEMA_EVENT or None has flushed and
\* saved nothing, whatever signals it got; and the checkpoint store changes only
\* in the save step of the signal handler of a process whose current_event_type
\* is DATA_EVENT (no step of run() writes it).
C6_SaveOnlyOnDataShutdown ==
    /\ [](\A p \in Procs :
            current_event_type[p] # DATA_EVENT =>
                (shutdownLog[p] = <<>> /\ saveArgs[p] = <<>>))
    /\ [][checkpoint' # checkpoint =>
            \E p \in Procs :
                /\ pc[p] = "h_save"
                /\ signals[p] >= 1
                /\ current_event_type[p] = DATA_EVENT]_vars

\* C6 witness: a signal arrived during a schema event that followed a published
\* data event; the process is exiting and no checkpoint was ever saved.
C6_Witness ==
    \E p \in Procs :
        /\ signals[p] >= 1
        /\ current_event_type[p] = SCHEMA_EVENT
        /\ published[p] # {}
        /\ pc[p] = "exiting"
        /\ exitCause[p] = "sys_exit"
        /\ shutdownLog[p] = <<>>
        /\ checkpoint = <<>>

IsFlush(c) == c = "flush"

\* C7: in a run there is at most one flush and at most one checkpoint save,
\* however many termination signals are delivered.
C7_OneFlushOneSave ==
    \A p \in Procs :
        /\ Len(SelectSeq(shutdownLog[p], IsFlush)) <= 1
        /\ Len(saveArgs[p]) <= 1

\* C8 (as claimed): when the shutdown steps take effect (a flush was made, or the
\* process exits through the signal handler), no handle_event call is in flight:
\* every call that was invoked has returned.
C8_HandlerFinishesFirst ==
    \A p \in Procs :
        (shutdownLog[p] # <<>> \/ (pc[p] = "exiting" /\ exitCause[p] = "sys_exit"))
            => returned[p] = Len(calls[p])

\* C8 (amended): once a termination signal has been delivered to the registered
\* handler, the interrupted run() never goes on: no handle_event call returns,
\* no event is taken from the stream or dispatched, nothing more is published,
\* and the main thread is in the shutdown steps until the process is gone.
C8_InterruptedCallAbandoned ==
    [][\A p \in Procs :
          (signals[p] >= 1 /\ pc'[p] # "terminated") =>
              /\ returned'[p] = returned[p]
              /\ calls'[p] = calls[p]
              /\ published'[p] = published[p]
              /\ idx'[p] = idx[p]
              /\ pc'[p] \in ShutdownPcs \cup {"exiting"}]_vars

\* C8 witness: a handle_event call was in flight when the signal arrived, the
\* shutdown calls were made, and the process exits with the call never returned.
C8_Witness ==
    \E p \in Procs :
        /\ Len(calls[p]) > returned[p]
        /\ shutdownLog[p] = FullShutdown
        /\ pc[p] = "exiting"
        /\ exitCause[p] = "sys_exit"

C10_NoRepublish ==
    \A p \in Procs : published[p] \cap pubPrev = {}


\* ------------------------------------------------------------- claims C11..C14

\* C11: no data loss across restarts: a data event that an earlier run, ended by
\* a signal, handed to the publisher and that lies at or before the position a
\* run resumes from has been durably accepted by the publisher.
C11_NoResumePastUnaccepted ==
    \A p \in Procs :
        streamOpen[p] =>
            \A i \in pubPrev : i <= startPos[p] => i \in busAccepted

\* An event of the run of p whose class has no handler.
UnknownAt(p, j) == log[j] \notin DOMAIN BuildHandlerMap

\* C12: an event of an unrecognized kind is fatal and never silently dropped:
\* the run stops at that event (no later event is yielded or dispatched), no
\* handler is called for it, and unless a signal cuts in first the process
\* ends with the exception and a non-zero status.
C12_UnknownEventFatal ==
    \A p \in Procs :
        \A j \in (startPos[p] + 1)..idx[p] :
            UnknownAt(p, j) =>
                /\ j = idx[p]
                /\ pc[p] \in {"classify", "exiting"} \cup ShutdownPcs
                /\ \A k \in 1..Len(calls[p]) : calls[p][k].position < j
                /\ (pc[p] = "exiting" /\ signals[p] = 0) =>
                       exitCause[p] = "exception" /\ exitStatus[p] # 0

C12_Witness ==
    \E p \in Procs :
        /\ pc[p] = "exiting"
        /\ exitCause[p] = "exception"
        /\ UnknownAt(p, idx[p])
        /\ idx[p] < Len(log)
        /\ calls[p] = <<>>

\* The process ended because a handle_event call raised.
HandlerFailed(p) ==
    /\ exitCause[p] = "exception"
    /\ signals[p] = 0
    /\ Len(calls[p]) > returned[p]

\* C13: a handler failure is fatal and not retried: the failing event's handler
\* was invoked exactly once, the exception ends the run with a non-zero status
\* (no later event is dispatched), and no checkpoint is flushed or saved.
C13_HandlerFailureFatal ==
    \A p \in Procs :
        exitCause[p] = "exception" =>
            /\ pc[p] = "exiting"
            /\ exitStatus[p] # 0
            /\ HandlerFailed(p) =>
                   /\ calls[p][Len(calls[p])].position = idx[p]
                   /\ Cardinality({k \in 1..Len(calls[p]) :
                                      calls[p][k].position = idx[p]}) = 1
                   /\ Len(calls[p]) = returned[p] + 1
                   /\ shutdownLog[p] = <<>>
                   /\ saveArgs[p] = <<>>

C13_Witness ==
    \E p \in Procs :
        /\ pc[p] = "exiting"
        /\ HandlerFailed(p)
        /\ idx[p] < Len(log)
        /\ checkpoint = <<>>

\* The process ended because save_position raised inside the signal handler.
SaveFailed(p) ==
    /\ exitCause[p] = "exception"
    /\ signals[p] >= 1

EventTypeOfClass(c) == IF c = DataEvent THEN DATA_EVENT ELSE SCHEMA_EVENT

\* A handle_event call of p has been entered and has not returned.
InHandler(p) == Len(calls[p]) > returned[p]

\* C17: while a handle_event call is executing (or has been cut off by a
\* signal), current_event_type is the category of the event of that call; it
\* is None until the first event is classified; and only the loop's assignment
\* before a call (or the end of the process) changes it.
C17_CategoryRegister ==
    /\ [](\A p \in Procs :
            /\ InHandler(p) =>
                   current_event_type[p] =
                       EventTypeOfClass(log[calls[p][Len(calls[p])].position])
            /\ pc[p] \in {"in_data", "in_schema", "returning"} =>
                   current_event_type[p] = EventTypeOfClass(log[idx[p]])
            /\ idx[p] = startPos[p] => current_event_type[p] = None)
    /\ [][\A p \in Procs :
            current_event_type'[p] # current_event_type[p] =>
                \/ pc[p] = "classify" /\ pc'[p] = "invoke"
                \/ pc'[p] = "terminated"]_vars

C17_Witness ==
    \E p \in Procs :
        /\ pc[p] = "in_schema"
        /\ current_event_type[p] = SCHEMA_EVENT
        /\ Len(calls[p]) = 2
        /\ log[calls[p][1].position] = DataEvent

\* Every event the stream has yielded to p has been classified and dispatched.
AllDispatched(p) ==
    /\ calls[p] # <<>>
    /\ Len(calls[p]) = idx[p] - startPos[p]

\* C19: the checkpoint decision of a signal shutdown follows the category of
\* the most recently classified event: when that event is a data event, also
\* one whose handler has already returned, the handler flushes and saves; when
\* it is a schema event, also one that follows published data events, nothing
\* is flushed or saved.
C19_DecisionByLastClassified ==
    \A p \in Procs :
        (signals[p] >= 1 /\ AllDispatched(p)) =>
            IF log[idx[p]] = DataEvent
            THEN \/ pc[p] \in {"h_flush", "h_get", "h_save"}
                 \/ /\ shutdownLog[p] # <<>>
                    /\ shutdownLog[p][Len(shutdownLog[p])] = "save_position"
            ELSE /\ shutdownLog[p] = <<>>
                 /\ saveArgs[p] = <<>>
                 /\ pc[p] \in {"h_exit", "exiting"}

C19_Witness ==
    \E p \in Procs :
        /\ pc[p] = "exiting"
        /\ exitCause[p] = "sys_exit"
        /\ AllDispatched(p)
        /\ ~InHandler(p)
        /\ log[idx[p]] = DataEvent
        /\ idx[p] = Len(log)
        /\ Len(saveArgs[p]) = 1
        /\ checkpoint # <<>>

\* The process ended on the KeyError of line 57.
LookupFailed(p) ==
    /\ pc[p] = "exiting"
    /\ exitCause[p] = "exception"
    /\ signals[p] = 0
    /\ ~InHandler(p)

\* C20: the failure on an event of an unrecognized kind comes before any state
\* change: current_event_type still holds the category of the previous event
\* (None when there was none) and no handler was called for the event.
C20_UnknownEventNoSideEffect ==
    \A p \in Procs :
        LookupFailed(p) =>
            /\ UnknownAt(p, idx[p])
            /\ current_event_type[p] =
                   IF calls[p] = <<>> THEN None
                   ELSE EventTypeOfClass(log[calls[p][Len(calls[p])].position])
            /\ Len(calls[p]) = idx[p] - startPos[p] - 1
            /\ \A k \in 1..Len(calls[p]) : calls[p][k].position < idx[p]
            /\ \A i \in published[p] : i < idx[p]

C20_Witness ==
    \E p \in Procs :
        /\ LookupFailed(p)
        /\ current_event_type[p] = DATA_EVENT
        /\ Len(calls[p]) = 1
        /\ published[p] # {}


\* ------------------------------------------------------------- claim C18

\* C18: once a termination signal has been delivered to a process that has
\* registered its handlers, the process eventually terminates, whatever the
\* category register holds, and from the delivery on it is never again in the
\* dispatch loop.
C18_SignalLeadsToExit ==
    /\ \A p \in Procs : (signals[p] >= 1) ~> (pc[p] = "terminated")
    /\ [](\A p \in Procs : signals[p] >= 1 => pc[p] \notin DispatchPcs)

C18_Witness ==
    \E p \in Procs :
        /\ signals[p] >= 1
        /\ current_event_type[p] = None
        /\ pc[p] = "exiting"
        /\ exitCause[p] = "sys_exit"
        /\ idx[p] < Len(log)


\* ------------------------------------------------------------- claims C15, C16

\* The message build_message returned.
Built == message[1]

\* C15: the message carries previous_payload_data exactly when the event is an
\* update, and then it is the projection of the row before the update, with
\* the fields of payload_data.
C15_PreviousPayloadIffUpdate ==
    build_state = "built" =>
        /\ ("previous_payload_data" \in DOMAIN Built.params)
               <=> (builder.event.message_type = UpdateMessage)
        /\ builder.event.message_type = UpdateMessage =>
               /\ DOMAIN Built.params["previous_payload_data"] =
                      DOMAIN Built.params.payload_data
               /\ Built.params["previous_payload_data"] =
                      [table_schema |-> builder.event.schema,
                       table_name |-> builder.event.table,
                       id |-> builder.event.row.before_values["id"]]
               /\ Built.params.payload_data.id = builder.event.row.after_values["id"]

C15_Witness ==
    /\ build_state = "built"
    /\ builder.event.message_type = UpdateMessage
    /\ "previous_payload_data" \in DOMAIN Built.params
    /\ Built.params["previous_payload_data"].id # Built.params.payload_data.id

\* C16: every name in the message's keys is a field of its payload_data.
C16_KeysWithinPayload ==
    build_state = "built" =>
        \A k \in DOMAIN Built.params.keys :
            Built.params.keys[k] \in DOMAIN Built.params.payload_data

====
